---------------------------- MODULE Spec2Model ----------------------------
(***************************************************************************)
(* Model of .github/scripts/create-issues.py: the parser of                *)
(* CODE_REVIEW_ISSUES.md (parse_issues_file), the body renderer            *)
(* (create_issue_body) and the runner (main) with its remote calls.        *)
(*                                                                         *)
(* Text is modelled character by character: a string is a sequence of      *)
(* one-character strings, so that the regular expression, strip(), split() *)
(* and int() act on the same characters as in the program.                 *)
(***************************************************************************)
EXTENDS Integers, Sequences, FiniteSets, TLC

VARIABLES
    sections,         \* the section blocks the document was written from (input)
    content,          \* text of CODE_REVIEW_ISSUES.md
    env,              \* process environment: DRY_RUN, START_ISSUE, END_ISSUE, GITHUB_TOKEN, GITHUB_REPOSITORY
    pc,               \* position of main (or of the parse/render driver)
    dry_run, start_issue, end_issue,
    issues,           \* result of parse_issues_file
    filtered_issues,
    existing_labels,
    created_count,
    idx,              \* position of "for issue in filtered_issues"
    lidx,             \* position of "for label in issue['labels']"
    body,             \* create_issue_body(issue) of the current issue
    bodies,           \* create_issue_body of every parsed issue (parse/render driver)
    repoLabels,       \* remote: label names defined on the repository
    repoIssues,       \* remote: issues created on the repository
    calls,            \* remote calls made so far, in order
    reported,         \* issues whose report lines were printed, in order
    summary,          \* the final message, once printed
    status            \* process exit: "running", "exit0", "exit1", "raised"

vars == <<sections, content, env, pc, dry_run, start_issue, end_issue, issues,
          filtered_issues, existing_labels, created_count, idx, lidx, body, bodies,
          repoLabels, repoIssues, calls, reported, summary, status>>

\* Python's None (an environment variable that is not set, a variable not yet
\* assigned): no text equals it, a text holds one-character strings only
None == <<"None">>

-----------------------------------------------------------------------------
(* The literals of issue_pattern (line 18) and of the body template (49-68) *)

\* '### Issue '
LitIssue ==
    <<"#", "#", "#", " ", "I", "s", "s", "u", "e", " ">>

\* ': '
LitColon ==
    <<":", " ">>

\* '\n\*\*Title\*\*: '
LitTitle ==
    <<"\n", "*", "*", "T", "i", "t", "l", "e", "*", "*", ":", " ">>

\* '\n\n\*\*Description\*\*:\n'
LitDescription ==
    <<"\n", "\n", "*", "*", "D", "e", "s", "c", "r", "i", "p", "t", "i", "o", "n", "*", "*",
      ":", "\n">>

\* '\n\n\*\*Goals\*\*:\n'
LitGoals ==
    <<"\n", "\n", "*", "*", "G", "o", "a", "l", "s", "*", "*", ":", "\n">>

\* '\n\n\*\*Files to modify\*\*:\n'
LitFiles ==
    <<"\n", "\n", "*", "*", "F", "i", "l", "e", "s", " ", "t", "o", " ", "m", "o", "d", "i",
      "f", "y", "*", "*", ":", "\n">>

\* '\n\n\*\*Acceptance Criteria\*\*:\n'
LitAcceptance ==
    <<"\n", "\n", "*", "*", "A", "c", "c", "e", "p", "t", "a", "n", "c", "e", " ", "C", "r",
      "i", "t", "e", "r", "i", "a", "*", "*", ":", "\n">>

\* '\n\n\*\*Labels\*\*: '
LitLabels ==
    <<"\n", "\n", "*", "*", "L", "a", "b", "e", "l", "s", "*", "*", ":", " ">>

\* '\n\*\*Estimated effort\*\*: '
LitEffort ==
    <<"\n", "*", "*", "E", "s", "t", "i", "m", "a", "t", "e", "d", " ", "e", "f", "f", "o",
      "r", "t", "*", "*", ":", " ">>

\* body text before {issue['description']}
HdrDescription ==
    <<"#", "#", " ", "D", "e", "s", "c", "r", "i", "p", "t", "i", "o", "n", "\n", "\n">>

\* body text before {issue['goals']}
HdrGoals ==
    <<"\n", "\n", "#", "#", " ", "G", "o", "a", "l", "s", "\n", "\n">>

\* body text before {issue['files']}
HdrFiles ==
    <<"\n", "\n", "#", "#", " ", "F", "i", "l", "e", "s", " ", "t", "o", " ", "m", "o", "d",
      "i", "f", "y", "\n", "\n">>

\* body text before {issue['acceptance']}
HdrAcceptance ==
    <<"\n", "\n", "#", "#", " ", "A", "c", "c", "e", "p", "t", "a", "n", "c", "e", " ", "C",
      "r", "i", "t", "e", "r", "i", "a", "\n", "\n">>

\* body text before {issue['effort']}
HdrEffort ==
    <<"\n", "\n", "-", "-", "-", "\n", "*", "*", "E", "s", "t", "i", "m", "a", "t", "e", "d",
      " ", "E", "f", "f", "o", "r", "t", "*", "*", ":", " ">>

\* body text after {issue['effort']}
BodyFooter ==
    <<"\n", "*", "*", "R", "e", "l", "a", "t", "e", "d", " ", "t", "o", "*", "*", ":", " ",
      "C", "o", "d", "e", " ", "R", "e", "v", "i", "e", "w", " ", "2", "0", "2", "5", "-",
      "1", "0", "-", "2", "4", "\n">>

-----------------------------------------------------------------------------
(* Character classes and string helpers                                     *)

\* \d of the pattern (the ASCII digits)
Digits == {"0", "1", "2", "3", "4", "5", "6", "7", "8", "9"}

\* value of one digit, as int() reads it
DigitVal(d) ==
    CASE d = "0" -> 0 [] d = "1" -> 1 [] d = "2" -> 2 [] d = "3" -> 3 [] d = "4" -> 4
      [] d = "5" -> 5 [] d = "6" -> 6 [] d = "7" -> 7 [] d = "8" -> 8 [] d = "9" -> 9

\* the characters str.strip() removes (those that occur in the documents)
Whitespace == {" ", "\t", "\n", "\r"}

SetMin(S) == CHOOSE x \in S : \A y \in S : x <= y
SetMax(S) == CHOOSE x \in S : \A y \in S : x >= y

\* c[a .. b-1]
Slice(c, a, b) == SubSeq(c, a, b - 1)

\* the literal lit stands in c at position p
MatchAt(c, lit, p) ==
    /\ p >= 1
    /\ p + Len(lit) - 1 <= Len(c)
    /\ \A k \in 1..Len(lit) : c[p + k - 1] = lit[k]

\* first position q >= p where lit stands in c; 0 when there is none
Find(c, lit, p) ==
    LET last == Len(c) - Len(lit) + 1
    IN  IF \E q \in p..last : MatchAt(c, lit, q)
        THEN CHOOSE q \in p..last :
                /\ MatchAt(c, lit, q)
                /\ \A r \in p..(q - 1) : ~MatchAt(c, lit, r)
        ELSE 0

\* end (exclusive) of the greedy run \d+ starting at p
DigitsEnd(c, p) ==
    IF p > Len(c) THEN p
    ELSE CHOOSE q \in p..(Len(c) + 1) :
            /\ q > Len(c) \/ c[q] \notin Digits
            /\ \A r \in p..(q - 1) : c[r] \in Digits

\* end (exclusive) of the greedy run [^\n]+ starting at p
LineEnd(c, p) ==
    IF p > Len(c) THEN p
    ELSE CHOOSE q \in p..(Len(c) + 1) :
            /\ q > Len(c) \/ c[q] = "\n"
            /\ \A r \in p..(q - 1) : c[r] # "\n"

\* str.strip()
Strip(s) ==
    LET keep == {k \in 1..Len(s) : s[k] \notin Whitespace}
    IN  IF keep = {} THEN <<>> ELSE SubSeq(s, SetMin(keep), SetMax(keep))

\* str.split(',')
RECURSIVE Split(_)
Split(s) ==
    LET commas == {k \in 1..Len(s) : s[k] = ","}
    IN  IF commas = {} THEN <<s>>
        ELSE LET k == SetMin(commas)
             IN  <<SubSeq(s, 1, k - 1)>> \o Split(SubSeq(s, k + 1, Len(s)))

\* int() of a run of digits
RECURSIVE ParseInt(_)
ParseInt(ds) ==
    IF ds = <<>> THEN 0
    ELSE ParseInt(SubSeq(ds, 1, Len(ds) - 1)) * 10 + DigitVal(ds[Len(ds)])

-----------------------------------------------------------------------------
(* parse_issues_file: re.finditer(issue_pattern, content, re.DOTALL)        *)

\* '\n\n\*\*Labels\*\*: ([^\n]+)\n\*\*Estimated effort\*\*: ([^\n]+)' matches at p
TailMatchesAt(c, p) ==
    LET l1 == p + Len(LitLabels)
        l2 == LineEnd(c, l1)
        f1 == l2 + Len(LitEffort)
    IN  /\ MatchAt(c, LitLabels, p)
        /\ l2 > l1
        /\ MatchAt(c, LitEffort, l2)
        /\ LineEnd(c, f1) > f1

\* where the lazy group 7 (.*?) stops: the first position q >= p from which the
\* rest of the pattern matches; 0 when there is none
RECURSIVE FindTail(_, _)
FindTail(c, p) ==
    LET q == Find(c, LitLabels, p)
    IN  IF q = 0 THEN 0
        ELSE IF TailMatchesAt(c, q) THEN q
        ELSE FindTail(c, q + 1)

NoMatch == [ok |-> FALSE]

\* one attempt of issue_pattern at position s of c. The groups 4 to 6 are lazy
\* and each is followed by a literal and another (.*?) under DOTALL, so each
\* stops at the first occurrence of its literal; group 7 stops where the two
\* closing lines match.
MatchIssue(c, s) ==
    LET n1 == s + Len(LitIssue)
        n2 == DigitsEnd(c, n1)
        s1 == n2 + Len(LitColon)
        s2 == LineEnd(c, s1)
        t1 == s2 + Len(LitTitle)
        t2 == LineEnd(c, t1)
        d1 == t2 + Len(LitDescription)
        d2 == Find(c, LitGoals, d1)
        g1 == d2 + Len(LitGoals)
        g2 == Find(c, LitFiles, g1)
        f1 == g2 + Len(LitFiles)
        f2 == Find(c, LitAcceptance, f1)
        a1 == f2 + Len(LitAcceptance)
        a2 == FindTail(c, a1)
        l1 == a2 + Len(LitLabels)
        l2 == LineEnd(c, l1)
        e1 == l2 + Len(LitEffort)
        e2 == LineEnd(c, e1)
    IN  IF /\ MatchAt(c, LitIssue, s)
           /\ n2 > n1
           /\ MatchAt(c, LitColon, n2)
           /\ s2 > s1
           /\ MatchAt(c, LitTitle, s2)
           /\ t2 > t1
           /\ MatchAt(c, LitDescription, t2)
           /\ d2 # 0
           /\ g2 # 0
           /\ f2 # 0
           /\ a2 # 0
        THEN [ok |-> TRUE, end |-> e2,
              group |-> <<Slice(c, n1, n2), Slice(c, s1, s2), Slice(c, t1, t2),
                          Slice(c, d1, d2), Slice(c, g1, g2), Slice(c, f1, f2),
                          Slice(c, a1, a2), Slice(c, l1, l2), Slice(c, e1, e2)>>]
        ELSE NoMatch

\* re.finditer: the leftmost match from s on, then on from its end
RECURSIVE FindIter(_, _)
FindIter(c, s) ==
    LET p == Find(c, LitIssue, s)
        m == MatchIssue(c, p)
    IN  IF p = 0 THEN <<>>
        ELSE IF m.ok THEN <<m.group>> \o FindIter(c, m.end)
        ELSE FindIter(c, p + 1)

\* [l.strip() for l in labels_str.split(',')]
SplitLabels(labels_str) ==
    LET pieces == Split(labels_str)
    IN  [k \in 1..Len(pieces) |-> Strip(pieces[k])]

\* variant of IssueOf: 'files' is read from the group of 'goals'
IssueOfWrongGroup(group) ==
    [number      |-> ParseInt(group[1]),
     short_title |-> Strip(group[2]),
     title       |-> Strip(group[3]),
     description |-> Strip(group[4]),
     goals       |-> Strip(group[5]),
     files       |-> Strip(group[5]),
     acceptance  |-> Strip(group[7]),
     labels      |-> SplitLabels(Strip(group[8])),
     effort      |-> Strip(group[9])]

\* the dict appended for one match
IssueOf(group) ==
    [number      |-> ParseInt(group[1]),
     short_title |-> Strip(group[2]),
     title       |-> Strip(group[3]),
     description |-> Strip(group[4]),
     goals       |-> Strip(group[5]),
     files       |-> Strip(group[6]),
     acceptance  |-> Strip(group[7]),
     labels      |-> SplitLabels(Strip(group[8])),
     effort      |-> Strip(group[9])]

parse_issues_file(c) ==
    LET ms == FindIter(c, 1)
    IN  [k \in 1..Len(ms) |-> IssueOf(ms[k])]

-----------------------------------------------------------------------------
(* create_issue_body                                                        *)

create_issue_body(issue) ==
    HdrDescription \o issue.description \o HdrGoals \o issue.goals
      \o HdrFiles \o issue.files \o HdrAcceptance \o issue.acceptance
      \o HdrEffort \o issue.effort \o BodyFooter

-----------------------------------------------------------------------------
(* Input documents: CODE_REVIEW_ISSUES.md written from section blocks       *)

\* most sections a document is written from
MaxSections == 2

FieldNames == {"heading", "title", "description", "goals", "files",
               "acceptance", "labels", "effort"}

\* decimal digit of a section's position
Tag(k) == CASE k = 0 -> "0" [] k = 1 -> "1" [] k = 2 -> "2" [] k = 3 -> "3" [] k = 4 -> "4"
            [] k = 5 -> "5" [] k = 6 -> "6" [] k = 7 -> "7" [] k = 8 -> "8" [] k = 9 -> "9"

\* the shapes a free-text block is written in
Shapes == {"plain", "indented", "paragraphs"}

Shape(x, sh) ==
    CASE sh = "plain"      -> x
      [] sh = "indented"   -> <<" ", " ">> \o x
      [] sh = "paragraphs" -> x \o <<"\n", "\n">> \o x \o <<" ">>

\* "bug, needs-review,perf"
LabelExample ==
    <<"b", "u", "g", ",", " ", "n", "e", "e", "d", "s", "-", "r", "e", "v", "i", "e", "w",
      ",", "p", "e", "r", "f">>

\* the Labels lines sections are written with
LabelLines ==
    { <<"a">>,
      LabelExample,
      <<"a", ",", "a">>,
      <<" ", "a", " ", ",", "b", " ">>,
      <<"a", ",", ",", "b">>,
      <<"a", ",">>,
      <<",">>,
      <<" ">> }

\* the numbers headings are written with, besides the section's position
NumberTexts == { <<"1", "2">>, <<"0", "0", "7">> }

PlainVariant ==
    [ds |-> "plain", gs |-> "plain", fs |-> "plain", as |-> "plain",
     labels |-> <<"a">>, missing |-> "none", number |-> <<>>]

TextVariants ==
    {[PlainVariant EXCEPT !.ds = a, !.gs = b, !.fs = c, !.as = d] :
        a \in Shapes, b \in Shapes, c \in Shapes, d \in Shapes}
LabelVariants   == {[PlainVariant EXCEPT !.labels = l] : l \in LabelLines}
MissingVariants == {[PlainVariant EXCEPT !.missing = f] : f \in FieldNames}
NumberVariants  == {[PlainVariant EXCEPT !.number = n] : n \in NumberTexts}

Variants == TextVariants \cup LabelVariants \cup MissingVariants \cup NumberVariants

\* what the sections around the varied one are
NeighbourVariants ==
    {PlainVariant, [PlainVariant EXCEPT !.missing = "goals"],
     [PlainVariant EXCEPT !.missing = "effort"]}

\* the k-th section of a document, written as variant v
MkSection(k, v) ==
    [number      |-> IF v.number = <<>> THEN <<Tag(k)>> ELSE v.number,
     short_title |-> <<"S", Tag(k)>>,
     title       |-> <<"T", Tag(k)>>,
     description |-> Shape(<<"d", Tag(k)>>, v.ds),
     goals       |-> Shape(<<"g", Tag(k)>>, v.gs),
     files       |-> Shape(<<"f", Tag(k)>>, v.fs),
     acceptance  |-> Shape(<<"c", Tag(k)>>, v.as),
     labels      |-> v.labels,
     effort      |-> <<"e", Tag(k)>>,
     missing     |-> v.missing]

Block(sec, name, text) == IF sec.missing = name THEN <<>> ELSE text

SectionText(sec) ==
    Block(sec, "heading", LitIssue \o sec.number \o LitColon \o sec.short_title)
      \o Block(sec, "title", LitTitle \o sec.title)
      \o Block(sec, "description", LitDescription \o sec.description)
      \o Block(sec, "goals", LitGoals \o sec.goals)
      \o Block(sec, "files", LitFiles \o sec.files)
      \o Block(sec, "acceptance", LitAcceptance \o sec.acceptance)
      \o Block(sec, "labels", LitLabels \o sec.labels)
      \o Block(sec, "effort", LitEffort \o sec.effort)

Preamble  == <<"#", " ", "I", "s", "s", "u", "e", "s", "\n", "\n">>
Separator == <<"\n", "\n", "-", "-", "-", "\n", "\n">>

RECURSIVE JoinSections(_, _)
JoinSections(secs, k) ==
    IF k > Len(secs) THEN <<"\n">>
    ELSE (IF k = 1 THEN <<>> ELSE Separator) \o SectionText(secs[k])
           \o JoinSections(secs, k + 1)

Document(secs) == Preamble \o JoinSections(secs, 1)

-----------------------------------------------------------------------------
(* Driver of the two pure functions: parse the document, render every issue *)

NoSummary == [kind |-> "none", created |-> 0, total |-> 0]

\* what main's variables hold before main has set them
Unset ==
    /\ env = None
    /\ dry_run = None /\ start_issue = None /\ end_issue = None
    /\ filtered_issues = <<>>
    /\ existing_labels = {}
    /\ created_count = 0
    /\ idx = 0 /\ lidx = 0
    /\ body = <<>>
    /\ repoLabels = {} /\ repoIssues = <<>>
    /\ calls = <<>> /\ reported = <<>>
    /\ summary = NoSummary
    /\ status = "running"

InitParse ==
    /\ \/ sections = <<>>
       \/ \E n \in 1..MaxSections :
            \E p \in 1..n, v \in Variants, w \in [1..n -> NeighbourVariants] :
               sections = [k \in 1..n |-> MkSection(k, IF k = p THEN v ELSE w[k])]
    /\ content = Document(sections)
    /\ pc = "unparsed"
    /\ issues = <<>>
    /\ bodies = <<>>
    /\ Unset

ParseFile ==
    /\ pc = "unparsed"
    /\ issues' = parse_issues_file(content)
    /\ pc' = "parsed"
    /\ UNCHANGED <<sections, content, env, dry_run, start_issue, end_issue,
                   filtered_issues, existing_labels, created_count, idx, lidx, body,
                   bodies, repoLabels, repoIssues, calls, reported, summary, status>>

RenderBodies ==
    /\ pc = "parsed"
    /\ bodies' = [k \in 1..Len(issues) |-> create_issue_body(issues[k])]
    /\ pc' = "rendered"
    /\ UNCHANGED <<sections, content, env, dry_run, start_issue, end_issue, issues,
                   filtered_issues, existing_labels, created_count, idx, lidx, body,
                   repoLabels, repoIssues, calls, reported, summary, status>>

NextParse == ParseFile \/ RenderBodies

ParseSpec == InitParse /\ [][NextParse]_vars

-----------------------------------------------------------------------------
(* main: its inputs                                                         *)

\* the numbers the headings of a run's document carry
IssueNumbers == { <<"1">>, <<"2">>, <<"3">> }

\* the Labels lines of a run's document
RunLabelLines == { <<"a">>, <<"b", ",", "a", ",", "b">> }

\* the k-th section of a run's document: well-formed, numbered n, labelled l
MkRunSection(k, n, l) ==
    MkSection(k, [PlainVariant EXCEPT !.number = n, !.labels = l])

\* values of the environment variables; None is "not set"
DryRunValues == { None, <<"t", "r", "u", "e">>, <<"T", "R", "U", "E">>,
                  <<"f", "a", "l", "s", "e">> }
StartValues  == { None, <<"2">> }
EndValues    == { None, <<"1">>, <<"2">> }
TokenValues  == { None, <<>>, <<"t", "k">> }
RepoValues   == { None, <<>>, <<"o", "/", "r">> }

Environments ==
    [DRY_RUN : DryRunValues, START_ISSUE : StartValues, END_ISSUE : EndValues,
     GITHUB_TOKEN : TokenValues, GITHUB_REPOSITORY : RepoValues]

\* the label names the repository may hold before the run
InitialRepoLabels == { {}, { <<"a">> } }

\* variant of DryRunDefault: the default is "false"
DryRunDefaultFalse == <<"f", "a", "l", "s", "e">>

\* line 74: the value of DRY_RUN when it is not set
DryRunDefault == <<"t", "r", "u", "e">>

\* variant of Missing: "is None" instead of "not ...", an empty value passes
MissingUnsetOnly(v) == v = None

\* "not github_token", "not github_repo": unset or empty
Missing(v) == v = None \/ v = <<>>

\* os.getenv(name, default)
Getenv(name, default) == IF env'[name] = None THEN default ELSE env'[name]

\* str.lower(), on the letters that occur
LowerChar(x) ==
    CASE x = "T" -> "t" [] x = "R" -> "r" [] x = "U" -> "u" [] x = "E" -> "e"
      [] x = "F" -> "f" [] x = "A" -> "a" [] x = "L" -> "l" [] x = "S" -> "s"
      [] OTHER -> x
Lower(s) == [k \in 1..Len(s) |-> LowerChar(s[k])]

\* variant of InRange: the lower bound is exclusive
InRangeExclusive(n, lo, hi) == lo < n /\ n <= hi

\* line 91: start_issue <= issue['number'] <= end_issue
InRange(n, lo, hi) == lo <= n /\ n <= hi

\* line 91: [issue for issue in issues if ...]
RECURSIVE FilterRange(_, _, _)
FilterRange(iss, lo, hi) ==
    IF iss = <<>> THEN <<>>
    ELSE (IF InRange(Head(iss).number, lo, hi) THEN <<Head(iss)>> ELSE <<>>)
           \o FilterRange(Tail(iss), lo, hi)

\* one remote call, as the repository saw it
Call(op, arg, rec, ok) == [op |-> op, arg |-> arg, rec |-> rec, ok |-> ok]

-----------------------------------------------------------------------------
(* main                                                                     *)

\* before main runs: the file is on disk, the repository holds its labels, and
\* nothing of the environment has been read yet (Startup reads it)
Init ==
    /\ \E n \in 0..MaxSections :
         \E ns \in [1..n -> IssueNumbers], ls \in [1..n -> RunLabelLines] :
            sections = [k \in 1..n |-> MkRunSection(k, ns[k], ls[k])]
    /\ content = Document(sections)
    /\ pc = "main"
    /\ issues = <<>>
    /\ bodies = <<>>
    /\ env = None
    /\ dry_run = None /\ start_issue = None /\ end_issue = None
    /\ filtered_issues = <<>>
    /\ existing_labels = {}
    /\ created_count = 0
    /\ idx = 0 /\ lidx = 0
    /\ body = <<>>
    /\ repoLabels \in InitialRepoLabels
    /\ repoIssues = <<>>
    /\ calls = <<>> /\ reported = <<>>
    /\ summary = NoSummary
    /\ status = "running"

\* lines 74-93: read the configuration, parse the file, filter by range.
\* env' is the environment the process runs in; GITHUB_TOKEN and
\* GITHUB_REPOSITORY are part of it although only a live run reads them.
\* (parsed is bound once so that the file is parsed once per document.)
Startup ==
    /\ pc = "main"
    /\ \E parsed \in {parse_issues_file(content)} :
           \E e \in Environments :
             /\ env' = e
             /\ dry_run' = (Lower(Getenv("DRY_RUN", DryRunDefault))
                              = <<"t", "r", "u", "e">>)
             /\ start_issue' = ParseInt(Getenv("START_ISSUE", <<"1">>))
             /\ end_issue' = ParseInt(Getenv("END_ISSUE", <<"2", "0">>))
             /\ issues' = parsed
             /\ filtered_issues' = FilterRange(parsed, start_issue', end_issue')
             /\ idx' = 1
             /\ pc' = IF dry_run' THEN "loop" ELSE "token"
    /\ UNCHANGED <<sections, content, existing_labels, created_count, lidx, body,
                   bodies, repoLabels, repoIssues, calls, reported, summary, status>>

\* lines 97-102: GITHUB_TOKEN
CheckToken ==
    /\ pc = "token"
    /\ IF Missing(env.GITHUB_TOKEN)
       THEN pc' = "exited" /\ status' = "exit1"
       ELSE pc' = "repo" /\ status' = status
    /\ UNCHANGED <<sections, content, env, dry_run, start_issue, end_issue, issues,
                   filtered_issues, existing_labels, created_count, idx, lidx, body,
                   bodies, repoLabels, repoIssues, calls, reported, summary>>

\* lines 104-107: GITHUB_REPOSITORY
CheckRepo ==
    /\ pc = "repo"
    /\ IF Missing(env.GITHUB_REPOSITORY)
       THEN pc' = "exited" /\ status' = "exit1"
       ELSE pc' = "get_repo" /\ status' = status
    /\ UNCHANGED <<sections, content, env, dry_run, start_issue, end_issue, issues,
                   filtered_issues, existing_labels, created_count, idx, lidx, body,
                   bodies, repoLabels, repoIssues, calls, reported, summary>>

\* line 109: g.get_repo(github_repo); a failure is not caught
GetRepo ==
    /\ pc = "get_repo"
    /\ \E ok \in BOOLEAN :
         /\ calls' = Append(calls, Call("get_repo", env.GITHUB_REPOSITORY, 0, ok))
         /\ IF ok THEN pc' = "get_labels" /\ status' = status
                  ELSE pc' = "exited" /\ status' = "raised"
    /\ UNCHANGED <<sections, content, env, dry_run, start_issue, end_issue, issues,
                   filtered_issues, existing_labels, created_count, idx, lidx, body,
                   bodies, repoLabels, repoIssues, reported, summary>>

\* line 112: {label.name for label in repo.get_labels()}; a failure is not caught
GetLabels ==
    /\ pc = "get_labels"
    /\ \E ok \in BOOLEAN :
         /\ calls' = Append(calls, Call("get_labels", <<>>, 0, ok))
         /\ IF ok THEN /\ existing_labels' = repoLabels
                       /\ pc' = "loop" /\ status' = status
                  ELSE /\ existing_labels' = existing_labels
                       /\ pc' = "exited" /\ status' = "raised"
    /\ UNCHANGED <<sections, content, env, dry_run, start_issue, end_issue, issues,
                   filtered_issues, created_count, idx, lidx, body,
                   bodies, repoLabels, repoIssues, reported, summary>>

\* lines 116-125: the next issue of the loop: render its body, print its report
BeginIssue ==
    /\ pc = "loop"
    /\ idx <= Len(filtered_issues)
    /\ body' = create_issue_body(filtered_issues[idx])
    /\ reported' = Append(reported, filtered_issues[idx])
    /\ IF dry_run THEN idx' = idx + 1 /\ lidx' = lidx /\ pc' = "loop"
                  ELSE idx' = idx /\ lidx' = 1 /\ pc' = "labels"
    /\ UNCHANGED <<sections, content, env, dry_run, start_issue, end_issue, issues,
                   filtered_issues, existing_labels, created_count,
                   bodies, repoLabels, repoIssues, calls, summary, status>>

\* variant of LabelsDone: the loop over the labels stops one label early
LabelsDoneEarly == lidx >= Len(filtered_issues[idx].labels)

\* line 128: the labels of the current issue are all handled
LabelsDone == lidx > Len(filtered_issues[idx].labels)

\* variant of AddKnown: the created label is not remembered
AddKnownForgotten(label) == existing_labels

\* line 133: existing_labels.add(label)
AddKnown(label) == existing_labels \cup {label}

\* variant of LabelFailed: the failure is swallowed and the loop goes on
LabelFailedCaught ==
    /\ UNCHANGED <<repoLabels, existing_labels, status>>
    /\ lidx' = lidx + 1
    /\ pc' = pc

\* line 132 raised: nothing catches it, the run ends there
LabelFailed ==
    /\ UNCHANGED <<repoLabels, existing_labels, lidx>>
    /\ pc' = "exited"
    /\ status' = "raised"

\* lines 128-133: one label of the issue
EnsureLabel ==
    /\ pc = "labels"
    /\ ~LabelsDone
    /\ LET label == filtered_issues[idx].labels[lidx]
       IN  IF label \in existing_labels
           THEN /\ lidx' = lidx + 1
                /\ UNCHANGED <<existing_labels, repoLabels, calls, pc, status>>
           ELSE \E ok \in BOOLEAN :
                  /\ calls' = Append(calls, Call("create_label", label, idx, ok))
                  /\ IF ok THEN /\ repoLabels' = repoLabels \cup {label}
                                /\ existing_labels' = AddKnown(label)
                                /\ lidx' = lidx + 1
                                /\ pc' = pc /\ status' = status
                           ELSE LabelFailed
    /\ UNCHANGED <<sections, content, env, dry_run, start_issue, end_issue, issues,
                   filtered_issues, created_count, idx, body,
                   bodies, repoIssues, reported, summary>>

\* variant of IssueFailed: no except clause, the failure ends the run
IssueFailedUncaught ==
    /\ UNCHANGED <<repoIssues, created_count, idx>>
    /\ pc' = "exited"
    /\ status' = "raised"

\* lines 145-147: create_issue raised; the except clause prints and the loop goes on
IssueFailed ==
    /\ UNCHANGED <<repoIssues, created_count, status>>
    /\ idx' = idx + 1
    /\ pc' = "loop"

\* lines 136-147: repo.create_issue inside try/except Exception
CreateIssue ==
    /\ pc = "labels"
    /\ LabelsDone
    /\ LET issue == filtered_issues[idx]
       IN  \E ok \in BOOLEAN :
             /\ calls' = Append(calls, Call("create_issue", issue.title, idx, ok))
             /\ IF ok
                THEN /\ repoIssues' = Append(repoIssues,
                          [title |-> issue.title, body |-> body, labels |-> issue.labels])
                     /\ created_count' = created_count + 1
                     /\ idx' = idx + 1
                     /\ pc' = "loop"
                     /\ status' = status
                ELSE IssueFailed
    /\ UNCHANGED <<sections, content, env, dry_run, start_issue, end_issue, issues,
                   filtered_issues, existing_labels, lidx, body,
                   bodies, repoLabels, reported, summary>>

\* lines 149-154: the final message
Summary ==
    /\ pc = "loop"
    /\ idx > Len(filtered_issues)
    /\ summary' = IF dry_run
                  THEN [kind |-> "dry-run", created |-> 0, total |-> 0]
                  ELSE [kind |-> "live", created |-> created_count,
                        total |-> Len(filtered_issues)]
    /\ pc' = "exited"
    /\ status' = "exit0"
    /\ UNCHANGED <<sections, content, env, dry_run, start_issue, end_issue, issues,
                   filtered_issues, existing_labels, created_count, idx, lidx, body,
                   bodies, repoLabels, repoIssues, calls, reported>>

Next ==
    \/ Startup
    \/ CheckToken
    \/ CheckRepo
    \/ GetRepo
    \/ GetLabels
    \/ BeginIssue
    \/ EnsureLabel
    \/ CreateIssue
    \/ Summary

Spec == Init /\ [][Next]_vars

-----------------------------------------------------------------------------
(* Properties of main                                                       *)

Started == pc # "main"

\* positions in calls of the calls of one operation, and of those that succeeded
CallIdx(op) == {k \in 1..Len(calls) : calls[k].op = op}
OkCalls(op) == {k \in CallIdx(op) : calls[k].ok}

\* C1: in dry-run mode (DRY_RUN unset or "true", or any value whose lower case
\* is "true") a run makes no remote call at all and changes nothing on the
\* repository, whatever the document, the range and the credentials are, and
\* when it has ended it has printed the dry-run message and exits with 0.
C1_DryRunMakesNoRemoteCall ==
    Started =>
      /\ (env.DRY_RUN = None \/ env.DRY_RUN = <<"t", "r", "u", "e">>) => dry_run
      /\ dry_run =>
           /\ calls = <<>>
           /\ repoIssues = <<>>
           /\ repoLabels \in InitialRepoLabels
           /\ existing_labels = {}
           /\ pc \in {"loop", "exited"}
           /\ status \in {"running", "exit0"}
           /\ pc = "exited" => (summary.kind = "dry-run" /\ status = "exit0")

\* a dry run with DRY_RUN unset and both credentials set has reported two issues
\* and ended
C1_Witness ==
    /\ Started
    /\ pc = "exited"
    /\ env.DRY_RUN = None
    /\ env.GITHUB_TOKEN = <<"t", "k">>
    /\ env.GITHUB_REPOSITORY = <<"o", "/", "r">>
    /\ Len(reported) = 2
    /\ summary.kind = "dry-run"

\* C2: in live mode with GITHUB_TOKEN or GITHUB_REPOSITORY unset or empty, no
\* state of the run has a remote call, a reported issue or a summary, and the
\* run ends with exit status 1.
C2_MissingCredentialsExitBeforeWork ==
    (/\ Started
     /\ ~dry_run
     /\ \/ env.GITHUB_TOKEN = None \/ env.GITHUB_TOKEN = <<>>
        \/ env.GITHUB_REPOSITORY = None \/ env.GITHUB_REPOSITORY = <<>>) =>
      /\ calls = <<>>
      /\ reported = <<>>
      /\ repoIssues = <<>>
      /\ repoLabels \in InitialRepoLabels
      /\ summary = NoSummary
      /\ pc \in {"token", "repo", "exited"}
      /\ pc = "exited" => status = "exit1"
      /\ pc # "exited" => status = "running"

\* a live run with a token and an empty GITHUB_REPOSITORY has ended with status 1
\* although two issues were in range
C2_Witness ==
    /\ Started
    /\ pc = "exited"
    /\ status = "exit1"
    /\ ~dry_run
    /\ env.GITHUB_TOKEN = <<"t", "k">>
    /\ env.GITHUB_REPOSITORY = <<>>
    /\ Len(filtered_issues) = 2

\* C3: after a create_issue call that raised the run goes on with the next
\* record of the loop (or with the summary when there is none), the call that
\* follows it belongs to the next record, a
\* run never ends by an exception of create_issue, and a live run that reached
\* the summary has attempted every filtered record once, in order, and reports
\* the number of create_issue calls that succeeded out of the number of
\* filtered records.
C3_IssueFailureDoesNotAbort ==
    Started =>
      /\ \A k \in CallIdx("create_issue") :
           ~calls[k].ok =>
             /\ k = Len(calls) =>
                  /\ idx = calls[k].rec + 1
                  /\ \/ status = "running" /\ pc \in {"loop", "labels"}
                     \/ status = "exit0" /\ pc = "exited"
             /\ k < Len(calls) => calls[k + 1].rec = calls[k].rec + 1
      /\ (status = "raised" /\ calls # <<>>) => calls[Len(calls)].op # "create_issue"
      /\ created_count = Cardinality(OkCalls("create_issue"))
      /\ (status = "exit0" /\ ~dry_run) =>
           /\ summary = [kind |-> "live",
                         created |-> Cardinality(OkCalls("create_issue")),
                         total |-> Len(filtered_issues)]
           /\ Cardinality(CallIdx("create_issue")) = Len(filtered_issues)
           /\ {calls[k].rec : k \in CallIdx("create_issue")} = 1..Len(filtered_issues)
           /\ Len(repoIssues) = summary.created

\* the first of two filtered issues failed, the second was created, and the
\* summary says 1 of 2
C3_Witness ==
    /\ status = "exit0"
    /\ summary = [kind |-> "live", created |-> 1, total |-> 2]
    /\ \E j, k \in CallIdx("create_issue") :
         /\ j < k
         /\ calls[j].rec = 1 /\ ~calls[j].ok
         /\ calls[k].rec = 2 /\ calls[k].ok

\* C4: a failed label listing or create_label call is the last call of the run:
\* the run has ended by the exception, without a summary, and the issues and
\* labels created before it are still on the repository.
C4_LabelCallFailureEndsRun ==
    \A k \in CallIdx("get_labels") \cup CallIdx("create_label") :
      ~calls[k].ok =>
        /\ k = Len(calls)
        /\ pc = "exited"
        /\ status = "raised"
        /\ summary = NoSummary
        /\ Len(repoIssues) = Cardinality(OkCalls("create_issue"))
        /\ \A j \in OkCalls("create_issue") :
             \E i \in 1..Len(repoIssues) : repoIssues[i].title = calls[j].arg
        /\ \A j \in OkCalls("create_label") : calls[j].arg \in repoLabels

\* create_label failed for the second record after a label and an issue had
\* been created for the first
C4_Witness ==
    /\ status = "raised"
    /\ calls # <<>>
    /\ calls[Len(calls)].op = "create_label"
    /\ calls[Len(calls)].rec = 2
    /\ Len(repoIssues) = 1
    /\ OkCalls("create_label") # {}

\* C5: filtered_issues is the subsequence of issues, in document order, of the
\* records with start_issue <= number <= end_issue (a strictly increasing map
\* onto the positions in range), and only filtered records are reported,
\* labelled or submitted.
C5_FilterIsInclusiveRangeInOrder ==
    Started =>
      LET n == Len(filtered_issues)
          inr == {k \in 1..Len(issues) :
                    start_issue <= issues[k].number /\ issues[k].number <= end_issue}
      IN  /\ n = Cardinality(inr)
          /\ \E f \in [1..n -> inr] :
               /\ \A a, b \in 1..n : a < b => f[a] < f[b]
               /\ \A a \in 1..n : filtered_issues[a] = issues[f[a]]
          /\ Len(reported) <= n
          /\ \A a \in 1..Len(reported) : reported[a] = filtered_issues[a]
          /\ \A k \in CallIdx("create_label") \cup CallIdx("create_issue") :
               calls[k].rec \in 1..n
          /\ \A k \in CallIdx("create_issue") :
               calls[k].arg = filtered_issues[calls[k].rec].title
          /\ \A i \in 1..Len(repoIssues) :
               \E a \in 1..n : repoIssues[i].title = filtered_issues[a].title

\* of two parsed records, the one whose number equals both bounds was reported
\* and the one numbered end_issue + 1 was not
C5_Witness ==
    /\ Started
    /\ pc = "exited"
    /\ Len(issues) = 2
    /\ Len(reported) = 1
    /\ reported[1].number = start_issue
    /\ reported[1].number = end_issue
    /\ \E k \in 1..Len(issues) : issues[k].number = end_issue + 1

\* C9: the labels are listed at most once and successfully before any label or
\* issue is created; the calls follow the filtered order, every call after the
\* create_issue of a record belongs to a later record, a call for a record comes
\* after the create_issue of the record before it; and when create_issue is
\* called for a record each of its labels is known: created earlier in the run,
\* or fetched and never created.
C9_LabelsListedOnceThenRecordsInOrder ==
    /\ Cardinality(CallIdx("get_labels")) <= 1
    /\ (Started /\ ~dry_run /\ pc \in {"loop", "labels"}) =>
         Cardinality(OkCalls("get_labels")) = 1
    /\ \A k \in CallIdx("create_label") \cup CallIdx("create_issue") :
         /\ \E g \in OkCalls("get_labels") : g < k
         /\ calls[k].rec > 1 =>
              \E j \in CallIdx("create_issue") : j < k /\ calls[j].rec = calls[k].rec - 1
    /\ \A j, k \in 1..Len(calls) :
         j < k => /\ calls[j].rec <= calls[k].rec
                  /\ calls[j].op = "create_issue" => calls[j].rec < calls[k].rec
    /\ \A k \in CallIdx("create_issue") :
         LET labels == filtered_issues[calls[k].rec].labels
         IN  \A i \in 1..Len(labels) :
               /\ labels[i] \in existing_labels
               /\ labels[i] \in repoLabels
               /\ \/ \E j \in OkCalls("create_label") : j < k /\ calls[j].arg = labels[i]
                  \/ \A j \in CallIdx("create_label") : calls[j].arg # labels[i]

\* a live run created two labels and submitted two issues and ended
C9_Witness ==
    /\ status = "exit0"
    /\ Started
    /\ ~dry_run
    /\ Cardinality(CallIdx("create_issue")) = 2
    /\ Cardinality(OkCalls("create_label")) = 2

\* C10: every create_label call is for a name that is neither known (fetched or
\* created earlier in the run) nor on the repository nor the subject of an
\* earlier create_label call; existing_labels only grows; a create_issue call
\* that raised changes neither the labels on the repository nor the known
\* labels.
C10_LabelsCreatedAtMostOnce ==
    [][ /\ existing_labels \subseteq existing_labels'
        /\ Len(calls') > Len(calls) =>
             LET c == calls'[Len(calls')]
             IN  /\ c.op = "create_label" =>
                      /\ c.arg \notin existing_labels
                      /\ c.arg \notin repoLabels
                      /\ \A j \in CallIdx("create_label") : calls[j].arg # c.arg
                 /\ (c.op = "create_issue" /\ ~c.ok) =>
                      /\ repoLabels' = repoLabels
                      /\ existing_labels' = existing_labels ]_vars

\* two records labelled "b,a,b" with "a" already on the repository: "b" was
\* created once, "a" never, the first create_issue failed and "b" is still there
C10_Witness ==
    /\ status = "exit0"
    /\ Started
    /\ ~dry_run
    /\ Len(filtered_issues) = 2
    /\ \A a \in 1..2 : filtered_issues[a].labels = << <<"b">>, <<"a">>, <<"b">> >>
    /\ Cardinality({k \in CallIdx("create_label") : calls[k].arg = <<"b">>}) = 1
    /\ \A k \in CallIdx("create_label") : calls[k].arg # <<"a">>
    /\ \E k \in CallIdx("create_issue") : calls[k].rec = 1 /\ ~calls[k].ok
    /\ <<"b">> \in repoLabels

-----------------------------------------------------------------------------
(* Properties of parse_issues_file and create_issue_body                    *)

\* a occurs in b as a contiguous run
Infix(a, b) == \E q \in 1..(Len(b) - Len(a) + 1) : MatchAt(b, a, q)

\* every section of the document has all its labeled fields
AllWellFormed == \A k \in 1..Len(sections) : sections[k].missing = "none"

\* s without its leading and trailing whitespace, position by position
Trimmed(s, t) ==
    \E a \in 1..(Len(s) + 1) :
      /\ \A q \in 1..(a - 1) : s[q] \in Whitespace
      /\ Len(t) <= Len(s) - a + 1
      /\ \A q \in 1..Len(t) : t[q] = s[a + q - 1]
      /\ \A q \in (a + Len(t))..Len(s) : s[q] \in Whitespace
      /\ t # <<>> => (t[1] \notin Whitespace /\ t[Len(t)] \notin Whitespace)

\* C6 (as the spec states it): for a document of well-formed sections, the body
\* rendered for each section holds the section's description, goals, files and
\* acceptance text verbatim, each right under its header.
C6_RoundTripVerbatim ==
    (pc = "rendered" /\ AllWellFormed) =>
      /\ Len(bodies) = Len(sections)
      /\ \A k \in 1..Len(bodies) :
           /\ Infix(HdrDescription \o sections[k].description, bodies[k])
           /\ Infix(HdrGoals \o sections[k].goals, bodies[k])
           /\ Infix(HdrFiles \o sections[k].files, bodies[k])
           /\ Infix(HdrAcceptance \o sections[k].acceptance, bodies[k])

\* C6 (amended): for a document of well-formed sections, the body rendered for
\* each section is the four headers and the footer around the section's
\* description, goals, files and acceptance text, each without its leading and
\* trailing whitespace and otherwise character for character, so a text that
\* neither starts nor ends with whitespace is reproduced verbatim.
C6_RoundTripTrimmed ==
    (pc = "rendered" /\ AllWellFormed) =>
      /\ Len(bodies) = Len(sections)
      /\ \A k \in 1..Len(bodies) :
           \E d \in {issues[k].description}, g \in {issues[k].goals},
              f \in {issues[k].files}, a \in {issues[k].acceptance} :
             /\ Trimmed(sections[k].description, d)
             /\ Trimmed(sections[k].goals, g)
             /\ Trimmed(sections[k].files, f)
             /\ Trimmed(sections[k].acceptance, a)
             /\ \E rest \in {HdrEffort \o issues[k].effort \o BodyFooter} :
                  bodies[k] = HdrDescription \o d \o HdrGoals \o g \o HdrFiles \o f
                                \o HdrAcceptance \o a \o rest

\* two well-formed sections were rendered, the first with an indented
\* description and with goals of two paragraphs and a trailing blank
C6_Witness ==
    /\ pc = "rendered"
    /\ AllWellFormed
    /\ Len(bodies) = 2
    /\ sections[1].description = <<" ", " ", "d", "1">>
    /\ sections[1].goals = <<"g", "1", "\n", "\n", "g", "1", " ">>
    /\ issues[1].description = <<"d", "1">>

\* the record r holds the number, titles and field values of the section sec
FromSection(r, sec) ==
    /\ sec.missing = "none"
    /\ r.number = ParseInt(sec.number)
    /\ Trimmed(sec.short_title, r.short_title)
    /\ Trimmed(sec.title, r.title)
    /\ Trimmed(sec.description, r.description)
    /\ Trimmed(sec.goals, r.goals)
    /\ Trimmed(sec.files, r.files)
    /\ Trimmed(sec.acceptance, r.acceptance)
    /\ Trimmed(sec.labels, Strip(sec.labels))
    /\ r.labels = SplitLabels(Strip(sec.labels))
    /\ Trimmed(sec.effort, r.effort)

\* C7: every record of parse_issues_file holds the number, titles and field
\* values of one single well-formed section of the document, and every
\* well-formed section of the document yields a record, whatever malformed
\* sections stand before it.
C7_RecordsFromOneSection ==
    pc # "unparsed" =>
      /\ \A i \in 1..Len(issues) :
           \E k \in 1..Len(sections) : FromSection(issues[i], sections[k])
      /\ \A k \in 1..Len(sections) :
           sections[k].missing = "none" =>
             \E i \in 1..Len(issues) : FromSection(issues[i], sections[k])

\* commas of a Labels line
Commas(line) == {q \in 1..Len(line) : line[q] = ","}

RECURSIVE JoinLabels(_)
JoinLabels(ls) ==
    IF Len(ls) = 0 THEN <<>>
    ELSE IF Len(ls) = 1 THEN ls[1]
    ELSE ls[1] \o <<",">> \o JoinLabels(Tail(ls))

NotWhitespace(x) == x \notin Whitespace

\* C8: for a document of well-formed sections, the labels of each record are
\* the pieces of the section's Labels line between its commas, in order and
\* with repetitions, without the whitespace around them, and none of them is
\* empty; "bug, needs-review,perf" gives bug, needs-review, perf.
C8_LabelsTrimmedNonEmpty ==
    (pc # "unparsed" /\ AllWellFormed) =>
      /\ Len(issues) = Len(sections)
      /\ \A k \in 1..Len(issues) :
           LET line == sections[k].labels
               ls == issues[k].labels
           IN  /\ Len(ls) = Cardinality(Commas(line)) + 1
               /\ JoinLabels(ls) = SelectSeq(line, NotWhitespace)
               /\ line = LabelExample =>
                    ls = << <<"b", "u", "g">>,
                            <<"n", "e", "e", "d", "s", "-", "r", "e", "v", "i", "e", "w">>,
                            <<"p", "e", "r", "f">> >>
               /\ \A i \in 1..Len(ls) : ls[i] # <<>>

=============================================================================
